---- MODULE Spec2Model ----
(***************************************************************************)
(* Model of src/pages/CreatePizzaPage.tsx: the pizza configurator's        *)
(* selection state (size, crust, ordered toppings), its click handlers,    *)
(* the auto-reset effect, the derived price / eligibility values and the   *)
(* checkout callback.                                                      *)
(*                                                                         *)
(* React semantics that the component relies on are modelled explicitly:   *)
(*   - every state change re-renders the component; a render that          *)
(*     dereferences pizzaSizes[selectedPizzaSize] for a size that is not   *)
(*     in the catalog throws (pc = "crashed");                             *)
(*   - the effect of lines 106-111 runs after mount and after every        *)
(*     commit in which one of its dependencies changed identity            *)
(*     (pc = "effect"); click handlers are dispatched only once pending    *)
(*     effects are flushed (pc = "idle").                                  *)
(***************************************************************************)
EXTENDS Integers, Sequences, FiniteSets, TLC

\* ---------------------------------------------------------------- bounds
NumSizes == 5
NumCrusts == 2
NumIngredients == 3
MaxFreeToppings == 2
MaxPrice == 1

\* ------------------------------------------------------- catalogs / props
\* JavaScript's undefined (a falsy id) for pizza.size / pizza.crust.
undefined == 0

SizeIds == 1..NumSizes
CrustIds == 1..NumCrusts
IngredientIds == 1..NumIngredients

\* A truthy size id that is not a key of pizzaSizes.
UnknownSizeId == NumSizes + 1

\* pizzaSizes: Record<id, PizzaSize>; only maxToppings matters to the logic.
\* The catalog holds the caps 0 .. NumSizes-1.
pizzaSizes == [s \in SizeIds |-> [id |-> s, maxToppings |-> s - 1]]

pizzaCrusts == [c \in CrustIds |-> [id |-> c]]

ingredients == [i \in IngredientIds |-> [id |-> i]]

VARIABLES
  selectedPizzaSize,   \* useState(pizza.size)
  selectedPizzaCrust,  \* useState(pizza.crust)
  selectedToppings,    \* useState(pizza.toppings || [])
  maxFreeToppings,     \* prop
  pricePerTopping,     \* prop
  pc,                  \* "effect" | "idle" | "crashed"
  resets,              \* auto-resets since the last user operation / mount
  onCheckout,          \* arguments of the onCheckout calls made by the latest step
  hist                 \* the last two user operations with their pre-state

vars == <<selectedPizzaSize, selectedPizzaCrust, selectedToppings,
          maxFreeToppings, pricePerTopping, pc, resets,
          onCheckout, hist>>

\* ------------------------------------------------------------ array helpers
Range(s) == {s[i] : i \in 1..Len(s)}

\* Array.prototype.includes
includes(arr, x) == \E i \in 1..Len(arr) : arr[i] = x

\* Array.prototype.indexOf: 0-based index of the first occurrence, else -1
indexOf(arr, x) ==
  IF includes(arr, x)
  THEN (CHOOSE i \in 1..Len(arr) :
          arr[i] = x /\ \A j \in 1..(i - 1) : arr[j] # x) - 1
  ELSE -1

\* Array.prototype.filter((id) => id !== x)
filterOut(arr, x) == LET keep(e) == e # x IN SelectSeq(arr, keep)

\* All duplicate-free sequences over S
RECURSIVE UniqueSeqsOfLen(_, _)
UniqueSeqsOfLen(S, n) ==
  IF n = 0 THEN {<<>>}
  ELSE UNION {{Append(s, x) : x \in S \ Range(s)} : s \in UniqueSeqsOfLen(S, n - 1)}

UniqueSeqs(S) == UNION {UniqueSeqsOfLen(S, n) : n \in 0..Cardinality(S)}

\* ------------------------------------------------------------ derived values
\* pizzaSizes[selectedPizzaSize] is an object (not undefined)
sizeInCatalog(size) == size \in DOMAIN pizzaSizes

\* Bug variant: the free range is tested with <= instead of <.
getIngredientPrice_inclusiveIndex(ingredientId) ==
  IF Len(selectedToppings) < maxFreeToppings
  THEN 0
  ELSE LET index == indexOf(selectedToppings, ingredientId)
       IN IF index >= 0 /\ index <= maxFreeToppings
          THEN 0
          ELSE pricePerTopping

\* Bug variant: the results of the under-allowance branch and of the
\* free-index branch are swapped with the paid result.
getIngredientPrice_swappedResults(ingredientId) ==
  IF Len(selectedToppings) < maxFreeToppings
  THEN pricePerTopping
  ELSE LET index == indexOf(selectedToppings, ingredientId)
       IN IF index >= 0 /\ index < maxFreeToppings
          THEN pricePerTopping
          ELSE 0

\* lines 86-96
getIngredientPrice(ingredientId) ==
  IF Len(selectedToppings) < maxFreeToppings
  THEN 0
  ELSE LET index == indexOf(selectedToppings, ingredientId)
       IN IF index >= 0 /\ index < maxFreeToppings
          THEN 0
          ELSE pricePerTopping

\* Bug variant: the cap is tested with <= instead of <.
isIngredientEnabled_inclusiveCap(ingredientId) ==
  IF Len(selectedToppings) <= pizzaSizes[selectedPizzaSize].maxToppings
  THEN TRUE
  ELSE includes(selectedToppings, ingredientId)

\* lines 98-104 (only evaluated while the toppings step is rendered)
isIngredientEnabled(ingredientId) ==
  IF Len(selectedToppings) < pizzaSizes[selectedPizzaSize].maxToppings
  THEN TRUE
  ELSE includes(selectedToppings, ingredientId)

\* lines 157 and 159: the count shown in "You can select N more ingredient(s)"
remainingSelections ==
  pizzaSizes[selectedPizzaSize].maxToppings - Len(selectedToppings)

\* line 159: '' (singular) when the count is 1, 's' otherwise
pluralSuffix == IF remainingSelections = 1 THEN "" ELSE "s"

\* Bug variant: the render never throws, as if every read of
\* pizzaSizes[selectedPizzaSize] used optional chaining.
renderThrows_never(size, crust) == FALSE

\* Render of lines 113-198 throws a TypeError: the toppings step (line 149)
\* is rendered when the crust is truthy and reads
\* pizzaSizes[selectedPizzaSize].maxToppings without optional chaining
\* (lines 157, 159, and 99 through line 173).
renderThrows(size, crust) == crust # undefined /\ ~sizeInCatalog(size)

\* line 131: crust step rendered
crustStepRendered == pc # "crashed" /\ selectedPizzaSize # undefined

\* line 149: toppings step rendered
toppingsStepRendered == pc # "crashed" /\ selectedPizzaCrust # undefined

\* line 184: checkout button rendered
checkoutRendered == pc # "crashed" /\ selectedPizzaCrust # undefined

\* Bug variant: the limit is tested with >= instead of >.
exceedsMaxToppings_inclusive(size, toppings) ==
  IF sizeInCatalog(size)
  THEN Len(toppings) >= pizzaSizes[size].maxToppings
  ELSE FALSE

\* Bug variant: the limit is tested one too high.
exceedsMaxToppings_offByOne(size, toppings) ==
  IF sizeInCatalog(size)
  THEN Len(toppings) > pizzaSizes[size].maxToppings + 1
  ELSE FALSE

\* line 107: selectedToppings.length > pizzaSizes[selectedPizzaSize]?.maxToppings
\* (n > undefined is false)
exceedsMaxToppings(size, toppings) ==
  IF sizeInCatalog(size)
  THEN Len(toppings) > pizzaSizes[size].maxToppings
  ELSE FALSE

\* ------------------------------------------------------------------ history
\* enabled: for a toggle, whether the clicked option was shown enabled
\* (isDisabled of line 173 was false); TRUE for the other operations.
record(op, arg) ==
  [op |-> op, arg |-> arg,
   crust |-> selectedPizzaCrust, toppings |-> selectedToppings,
   enabled |-> TRUE]

push(rec) == <<rec>> \o (IF hist = <<>> THEN <<>> ELSE <<hist[1]>>)

\* --------------------------------------------------------------------- Init
\* lines 55-59: state after mount, from any initial order
Init ==
  /\ selectedPizzaSize \in SizeIds \cup {undefined, UnknownSizeId}
  /\ selectedPizzaCrust \in CrustIds \cup {undefined}
  /\ selectedToppings \in UniqueSeqs(IngredientIds)
  /\ maxFreeToppings \in 0..MaxFreeToppings
  /\ pricePerTopping \in 0..MaxPrice
  /\ pc = IF renderThrows(selectedPizzaSize, selectedPizzaCrust)
          THEN "crashed" ELSE "effect"
  /\ resets = 0
  /\ onCheckout = <<>>
  /\ hist = <<>>

\* ------------------------------------------------------------------ actions
\* Bug variant: selectedPizzaSize is missing from the effect's dependency
\* list, so a size change does not re-run the auto-reset effect.
selectSize_noEffect(id) ==
  /\ pc = "idle"
  /\ selectedPizzaSize' = pizzaSizes[id].id
  /\ pc' = IF renderThrows(selectedPizzaSize', selectedPizzaCrust) THEN "crashed"
           ELSE "idle"
  /\ resets' = 0
  /\ hist' = push(record("selectSize", id))
  /\ UNCHANGED <<selectedPizzaCrust, selectedToppings, maxFreeToppings,
                 pricePerTopping>>
  /\ onCheckout' = <<>>

\* Bug variant: picking a size also clears the topping selection.
selectSize_clearsToppings(id) ==
  /\ pc = "idle"
  /\ selectedPizzaSize' = pizzaSizes[id].id
  /\ selectedToppings' = <<>>
  /\ pc' = IF renderThrows(selectedPizzaSize', selectedPizzaCrust) THEN "crashed"
           ELSE "effect"
  /\ resets' = 0
  /\ hist' = push(record("selectSize", id))
  /\ UNCHANGED <<selectedPizzaCrust, maxFreeToppings, pricePerTopping>>
  /\ onCheckout' = <<>>

\* line 125: PizzaSizeOption onClick => setSelectedPizzaSize(pizzaSize.id)
selectSize(id) ==
  /\ pc = "idle"
  /\ selectedPizzaSize' = pizzaSizes[id].id
  /\ pc' = IF renderThrows(selectedPizzaSize', selectedPizzaCrust) THEN "crashed"
           ELSE IF selectedPizzaSize' # selectedPizzaSize THEN "effect"
           ELSE "idle"
  /\ resets' = 0
  /\ hist' = push(record("selectSize", id))
  /\ UNCHANGED <<selectedPizzaCrust, selectedToppings, maxFreeToppings,
                 pricePerTopping>>
  /\ onCheckout' = <<>>

\* lines 131-142: PizzaCrustOption onClick => setSelectedPizzaCrust(pizzaCrust.id)
selectCrust(id) ==
  /\ pc = "idle"
  /\ crustStepRendered
  /\ selectedPizzaCrust' = pizzaCrusts[id].id
  /\ pc' = IF renderThrows(selectedPizzaSize, selectedPizzaCrust') THEN "crashed"
           ELSE "idle"
  /\ resets' = 0
  /\ hist' = push(record("selectCrust", id))
  /\ UNCHANGED <<selectedPizzaSize, selectedToppings, maxFreeToppings,
                 pricePerTopping>>
  /\ onCheckout' = <<>>

\* Bug variant: the new id is put in front of the list.
addTopping_prepend(ingredientId) == <<ingredientId>> \o selectedToppings

\* lines 70-72
addTopping(ingredientId) == Append(selectedToppings, ingredientId)

\* Bug variant: the last element is dropped, whatever the id.
removeTopping_pop(ingredientId) ==
  SubSeq(selectedToppings, 1, Len(selectedToppings) - 1)

\* lines 74-76
removeTopping(ingredientId) == filterOut(selectedToppings, ingredientId)

\* Bug variant: the includes test is missing, the id is always added.
toggleTopping_alwaysAdds(ingredientId) ==
  /\ pc = "idle"
  /\ toppingsStepRendered
  /\ selectedToppings' = addTopping(ingredients[ingredientId].id)
  /\ pc' = "effect"
  /\ resets' = 0
  /\ hist' = push([record("toggleTopping", ingredientId) EXCEPT
                     !.enabled = isIngredientEnabled(ingredients[ingredientId].id)])
  /\ UNCHANGED <<selectedPizzaSize, selectedPizzaCrust, maxFreeToppings,
                 pricePerTopping>>
  /\ onCheckout' = <<>>

\* lines 78-84, reached from the onClick of lines 174-176
toggleTopping(ingredientId) ==
  /\ pc = "idle"
  /\ toppingsStepRendered
  /\ selectedToppings' = IF includes(selectedToppings, ingredients[ingredientId].id)
                         THEN removeTopping(ingredients[ingredientId].id)
                         ELSE addTopping(ingredients[ingredientId].id)
  /\ pc' = "effect"
  /\ resets' = 0
  /\ hist' = push([record("toggleTopping", ingredientId) EXCEPT
                     !.enabled = isIngredientEnabled(ingredients[ingredientId].id)])
  /\ UNCHANGED <<selectedPizzaSize, selectedPizzaCrust, maxFreeToppings,
                 pricePerTopping>>
  /\ onCheckout' = <<>>

\* Bug variant: the effect trims the list to the first maxToppings ids
\* instead of clearing it.
autoReset_truncate ==
  /\ pc = "effect"
  /\ IF exceedsMaxToppings(selectedPizzaSize, selectedToppings)
     THEN /\ selectedToppings' =
               SubSeq(selectedToppings, 1, pizzaSizes[selectedPizzaSize].maxToppings)
          /\ resets' = resets + 1
          /\ pc' = "effect"
     ELSE /\ pc' = "idle"
          /\ UNCHANGED <<selectedToppings, resets>>
  /\ UNCHANGED <<selectedPizzaSize, selectedPizzaCrust, maxFreeToppings,
                 pricePerTopping, hist>>
  /\ onCheckout' = <<>>

\* lines 106-111: the auto-reset effect
autoReset ==
  /\ pc = "effect"
  /\ IF exceedsMaxToppings(selectedPizzaSize, selectedToppings)
     THEN /\ selectedToppings' = <<>>
          /\ resets' = resets + 1
          /\ pc' = "effect"
     ELSE /\ pc' = "idle"
          /\ UNCHANGED <<selectedToppings, resets>>
  /\ UNCHANGED <<selectedPizzaSize, selectedPizzaCrust, maxFreeToppings,
                 pricePerTopping, hist>>
  /\ onCheckout' = <<>>

\* Bug variant: the handler also clears the topping selection.
finalize_clearsToppings ==
  /\ pc = "idle"
  /\ checkoutRendered
  /\ onCheckout' = <<[size |-> selectedPizzaSize,
                      crust |-> selectedPizzaCrust,
                      toppings |-> selectedToppings]>>
  /\ selectedToppings' = <<>>
  /\ UNCHANGED <<selectedPizzaSize, selectedPizzaCrust,
                 maxFreeToppings, pricePerTopping, pc, resets, hist>>

\* lines 184-196: CheckoutButton onClick => onCheckout({size, crust, toppings})
finalize ==
  /\ pc = "idle"
  /\ checkoutRendered
  /\ onCheckout' = <<[size |-> selectedPizzaSize,
                      crust |-> selectedPizzaCrust,
                      toppings |-> selectedToppings]>>
  /\ UNCHANGED <<selectedPizzaSize, selectedPizzaCrust, selectedToppings,
                 maxFreeToppings, pricePerTopping, pc, resets, hist>>

Next ==
  \/ \E id \in SizeIds : selectSize(id)
  \/ \E id \in CrustIds : selectCrust(id)
  \/ \E id \in IngredientIds : toggleTopping(id)
  \/ autoReset
  \/ finalize

Spec == Init /\ [][Next]_vars

\* React runs every pending effect: a scheduled effect of lines 106-111 is
\* not postponed forever. User clicks carry no fairness.
FairSpec == Spec /\ WF_vars(autoReset)

TypeOK ==
  /\ selectedPizzaSize \in SizeIds \cup {undefined, UnknownSizeId}
  /\ selectedPizzaCrust \in CrustIds \cup {undefined}
  /\ Range(selectedToppings) \subseteq IngredientIds
  /\ pc \in {"effect", "idle", "crashed"}
  /\ Len(onCheckout) <= 1
  /\ Len(hist) <= 2

\* =================================================================== claims

\* The latest user operation, and the two latest, as recorded in hist.
lastOpIs(op) == hist # <<>> /\ hist[1].op = op

toggledTwice ==
  /\ Len(hist) = 2
  /\ hist[1].op = "toggleTopping"
  /\ hist[2].op = "toggleTopping"
  /\ hist[1].arg = hist[2].arg

\* C1: in every settled state (the auto-reset effect has run) in which a
\* catalog size is selected, the number of selected toppings is at most that
\* size's maxToppings.
C1_ToppingsWithinMax ==
  (pc = "idle" /\ sizeInCatalog(selectedPizzaSize))
    => Len(selectedToppings) <= pizzaSizes[selectedPizzaSize].maxToppings

\* C1 witness: a settled state reached through an auto-reset.
C1_Witness ==
  /\ pc = "idle"
  /\ sizeInCatalog(selectedPizzaSize)
  /\ resets > 0

\* C2 as stated: after toggleTopping(id) twice in succession, in the settled
\* state, selectedToppings equals its value before the two calls.
C2_ToggleTwiceRestores ==
  (pc = "idle" /\ toggledTwice) => selectedToppings = hist[2].toppings

\* C2 amended: after toggleTopping(id) twice in succession, in the settled
\* state: if id was selected before, the list is the previous list with id
\* moved to the end; if id was not selected and the count was below the
\* size's maxToppings, the list is the previous list unchanged.
C2_ToggleTwiceAmended ==
  (pc = "idle" /\ toggledTwice) =>
    LET id == hist[1].arg
        before == hist[2].toppings
    IN /\ id \in Range(before)
            => selectedToppings = Append(filterOut(before, id), id)
       /\ (id \notin Range(before)
             /\ Len(before) < pizzaSizes[selectedPizzaSize].maxToppings)
            => selectedToppings = before

\* C2 witness: two toggles of a selected id that was not last, so that the
\* order changed.
C2_Witness ==
  /\ pc = "idle"
  /\ toggledTwice
  /\ hist[1].arg \in Range(hist[2].toppings)
  /\ selectedToppings # hist[2].toppings

\* C3: when the number of selected toppings is at least maxFreeToppings, the
\* price of a selected id is 0 if its position in selection order is below
\* maxFreeToppings and pricePerTopping otherwise.
C3_FirstAllowanceFree ==
  Len(selectedToppings) >= maxFreeToppings =>
    \A i \in 1..Len(selectedToppings) :
      getIngredientPrice(selectedToppings[i]) =
        IF i - 1 < maxFreeToppings THEN 0 ELSE pricePerTopping

\* C3 witness: after a toggle, the toppings step shows both free and paid
\* selected toppings.
C3_Witness ==
  /\ pc = "idle"
  /\ toppingsStepRendered
  /\ lastOpIs("toggleTopping")
  /\ maxFreeToppings >= 1
  /\ Len(selectedToppings) > maxFreeToppings
  /\ pricePerTopping > 0

\* C4: when the number of selected toppings is strictly below
\* maxFreeToppings, every selected id is priced 0.
C4_AllFreeUnderAllowance ==
  Len(selectedToppings) < maxFreeToppings =>
    \A id \in Range(selectedToppings) : getIngredientPrice(id) = 0

\* C4 witness: after a toggle, a topping is selected, the count is under the
\* allowance and toppings beyond the allowance are not free.
C4_Witness ==
  /\ pc = "idle"
  /\ toppingsStepRendered
  /\ lastOpIs("toggleTopping")
  /\ Len(selectedToppings) >= 1
  /\ Len(selectedToppings) < maxFreeToppings
  /\ pricePerTopping > 0

\* C5: when selectSize picks a size whose maxToppings is smaller than the
\* current number of selected toppings, the settled state has no selected
\* toppings, the new size selected and the crust unchanged.
C5_DownsizeClears ==
  (/\ pc = "idle"
   /\ lastOpIs("selectSize")
   /\ pizzaSizes[hist[1].arg].maxToppings < Len(hist[1].toppings))
    => /\ selectedToppings = <<>>
       /\ selectedPizzaSize = hist[1].arg
       /\ selectedPizzaCrust = hist[1].crust

\* C5 witness: a downsize to a size that still allows toppings, so that a
\* truncation would have kept some.
C5_Witness ==
  /\ pc = "idle"
  /\ lastOpIs("selectSize")
  /\ pizzaSizes[hist[1].arg].maxToppings < Len(hist[1].toppings)
  /\ pizzaSizes[hist[1].arg].maxToppings >= 1
  /\ hist[1].crust # undefined

\* C6: with a catalog size selected, an ingredient is enabled exactly when
\* the count is below the size's maxToppings or the ingredient is selected.
C6_EnabledIffBelowCapOrSelected ==
  sizeInCatalog(selectedPizzaSize) =>
    \A id \in IngredientIds :
      isIngredientEnabled(id) <=>
        \/ Len(selectedToppings) < pizzaSizes[selectedPizzaSize].maxToppings
        \/ id \in Range(selectedToppings)

\* C6 witness: at the cap, with a selected (enabled) and an unselected
\* (disabled) ingredient on screen.
C6_Witness ==
  /\ pc = "idle"
  /\ toppingsStepRendered
  /\ Len(selectedToppings) = pizzaSizes[selectedPizzaSize].maxToppings
  /\ \E id \in IngredientIds : id \in Range(selectedToppings) /\ isIngredientEnabled(id)
  /\ \E id \in IngredientIds : id \notin Range(selectedToppings) /\ ~isIngredientEnabled(id)

\* C7: a step that invokes the checkout callback invokes it exactly once,
\* with the current size, crust and toppings, and leaves the selection
\* unchanged.
C7_FinalizeFrame ==
  [][(onCheckout = <<>> /\ onCheckout' # <<>>) =>
       /\ Len(onCheckout') = 1
       /\ onCheckout'[1] = [size |-> selectedPizzaSize,
                            crust |-> selectedPizzaCrust,
                            toppings |-> selectedToppings]
       /\ UNCHANGED <<selectedPizzaSize, selectedPizzaCrust, selectedToppings>>]_vars

\* C7 witness: checkout was invoked with an order holding two toppings.
C7_Witness ==
  /\ onCheckout # <<>>
  /\ Len(onCheckout[1].toppings) >= 2
  /\ selectedToppings = onCheckout[1].toppings

\* C8: whenever the toppings step or the checkout button is rendered, both a
\* size and a crust are selected; and the crust changes only in a state in
\* which a size is selected.
C8_StepwiseFlow ==
  /\ []((toppingsStepRendered \/ checkoutRendered)
          => (selectedPizzaSize # undefined /\ selectedPizzaCrust # undefined))
  /\ [][selectedPizzaCrust' # selectedPizzaCrust
          => selectedPizzaSize # undefined]_vars

\* C8 witness: the toppings step is on screen after the user picked a size
\* and then a first crust.
C8_Witness ==
  /\ pc = "idle"
  /\ toppingsStepRendered
  /\ Len(hist) = 2
  /\ hist[2].op = "selectSize"
  /\ hist[1].op = "selectCrust"
  /\ hist[1].crust = undefined

\* C9 as stated: no operation or derived value reaches an error state.
C9_NoErrorState == pc # "crashed"

\* C10: every order passed to the checkout callback names a catalog size and
\* holds at most that size's maxToppings toppings.
C10_OrderWithinMax ==
  \A i \in 1..Len(onCheckout) :
    /\ sizeInCatalog(onCheckout[i].size)
    /\ Len(onCheckout[i].toppings) <= pizzaSizes[onCheckout[i].size].maxToppings

\* C10 witness: a checkout right after a downsize that triggered the
\* auto-reset.
C10_Witness ==
  /\ onCheckout # <<>>
  /\ lastOpIs("selectSize")
  /\ resets > 0

\* A step of the toggleTopping(id) handler: the only step that leaves a
\* settled state with the effect pending and records a toggle.
toggleStep(id) ==
  /\ pc = "idle"
  /\ pc' = "effect"
  /\ hist' # <<>>
  /\ hist'[1].op = "toggleTopping"
  /\ hist'[1].arg = id

\* C11: toggleTopping(id) on a selected id removes it and keeps the other
\* ids in their relative order; on an unselected id it appends id as the last
\* element and keeps the earlier elements in place; size and crust are
\* unchanged in both cases.
C11_ToggleRemovesOrAppends ==
  [][\A id \in IngredientIds :
       toggleStep(id) =>
         /\ UNCHANGED <<selectedPizzaSize, selectedPizzaCrust>>
         /\ IF id \in Range(selectedToppings)
            THEN /\ Range(selectedToppings') = Range(selectedToppings) \ {id}
                 /\ Len(selectedToppings') = Len(selectedToppings) - 1
                 /\ \A i, j \in 1..Len(selectedToppings') :
                      i < j => indexOf(selectedToppings, selectedToppings'[i])
                                 < indexOf(selectedToppings, selectedToppings'[j])
            ELSE /\ Len(selectedToppings') = Len(selectedToppings) + 1
                 /\ selectedToppings'[Len(selectedToppings')] = id
                 /\ \A i \in 1..Len(selectedToppings) :
                      selectedToppings'[i] = selectedToppings[i]]_vars

\* C11 witness: a toggle removed an id that was neither first nor last.
C11_Witness ==
  /\ pc = "effect"
  /\ lastOpIs("toggleTopping")
  /\ Len(hist[1].toppings) >= 3
  /\ hist[1].toppings[2] = hist[1].arg
  /\ Len(selectedToppings) = Len(hist[1].toppings) - 1

\* C12: a step that changes the crust changes neither size nor toppings, and
\* after selectCrust(id) the crust is id and the toppings are as before;
\* a step that changes the size changes neither crust nor toppings, and when
\* selectSize(id) finds at most maxToppings(id) selected toppings (equality
\* included) the settled state has size id, the same toppings in the same
\* order and the same crust.
C12_SelectFrame ==
  /\ [][selectedPizzaCrust' # selectedPizzaCrust
          => UNCHANGED <<selectedPizzaSize, selectedToppings>>]_vars
  /\ [][selectedPizzaSize' # selectedPizzaSize
          => UNCHANGED <<selectedPizzaCrust, selectedToppings>>]_vars
  /\ [](lastOpIs("selectCrust")
          => /\ selectedPizzaCrust = hist[1].arg
             /\ selectedToppings = hist[1].toppings)
  /\ []((/\ pc = "idle"
         /\ lastOpIs("selectSize")
         /\ Len(hist[1].toppings) <= pizzaSizes[hist[1].arg].maxToppings)
          => /\ selectedPizzaSize = hist[1].arg
             /\ selectedToppings = hist[1].toppings
             /\ selectedPizzaCrust = hist[1].crust)

\* C12 witness: the user moved from one size to another whose maxToppings
\* equals the number of selected toppings, and the toppings were kept.
C12_Witness ==
  /\ pc = "idle"
  /\ Len(hist) = 2
  /\ hist[1].op = "selectSize"
  /\ hist[2].op = "selectSize"
  /\ hist[1].arg # hist[2].arg
  /\ Len(hist[1].toppings) >= 1
  /\ Len(hist[1].toppings) = pizzaSizes[hist[1].arg].maxToppings
  /\ hist[1].crust # undefined

\* C13: from an initial order without repeated topping ids, selectedToppings
\* never holds an id twice.
C13_NoDuplicateToppings ==
  \A i, j \in 1..Len(selectedToppings) :
    i # j => selectedToppings[i] # selectedToppings[j]

\* C13 witness: two toggles in a row added two different ids to a non-empty
\* selection.
C13_Witness ==
  /\ pc = "idle"
  /\ Len(hist) = 2
  /\ hist[1].op = "toggleTopping"
  /\ hist[2].op = "toggleTopping"
  /\ Len(hist[2].toppings) >= 1
  /\ Len(selectedToppings) = Len(hist[2].toppings) + 2

\* The ingredient options that are not selected.
unselectedIngredients == {id \in IngredientIds : ~includes(selectedToppings, id)}

\* C14 as stated: in every settled state with a catalog size, the remaining
\* count is non-negative, it is 0 exactly when no unselected ingredient is
\* enabled, and the singular wording is used exactly when the count is 1.
C14_RemainingCount ==
  (pc = "idle" /\ sizeInCatalog(selectedPizzaSize)) =>
    /\ remainingSelections >= 0
    /\ remainingSelections = 0
         <=> \A id \in unselectedIngredients : ~isIngredientEnabled(id)
    /\ pluralSuffix = "" <=> remainingSelections = 1

\* C14 amended: as C14, but a count of 0 follows from "no unselected
\* ingredient is enabled" only when some ingredient is unselected.
C14_RemainingCountAmended ==
  (pc = "idle" /\ sizeInCatalog(selectedPizzaSize)) =>
    /\ remainingSelections >= 0
    /\ remainingSelections = 0
         => \A id \in unselectedIngredients : ~isIngredientEnabled(id)
    /\ (/\ unselectedIngredients # {}
        /\ \A id \in unselectedIngredients : ~isIngredientEnabled(id))
         => remainingSelections = 0
    /\ pluralSuffix = "" <=> remainingSelections = 1

\* C14 witness: the toppings step shows a count of 0 after a toggle, with
\* unselected ingredients left, all of them disabled.
C14_Witness ==
  /\ pc = "idle"
  /\ toppingsStepRendered
  /\ lastOpIs("toggleTopping")
  /\ remainingSelections = 0
  /\ unselectedIngredients # {}
  /\ \A id \in unselectedIngredients : ~isIngredientEnabled(id)

\* C15: after a toggle of an option that was shown enabled, the number of
\* selected toppings does not exceed the selected size's maxToppings, also
\* while the auto-reset effect is still pending, and no auto-reset follows
\* the toggle.
C15_EnabledToggleNeverResets ==
  (pc # "crashed" /\ lastOpIs("toggleTopping") /\ hist[1].enabled) =>
    /\ Len(selectedToppings) <= pizzaSizes[selectedPizzaSize].maxToppings
    /\ resets = 0

\* C15 witness: the effect is pending after a toggle that added an enabled
\* id and filled the selection up to the cap.
C15_Witness ==
  /\ pc = "effect"
  /\ lastOpIs("toggleTopping")
  /\ hist[1].enabled
  /\ hist[1].arg \notin Range(hist[1].toppings)
  /\ Len(selectedToppings) = pizzaSizes[selectedPizzaSize].maxToppings

\* C16: when toggleTopping(id) adds an unselected, enabled id, the price shown
\* for id before the click equals the price shown for it right after the
\* add: 0 if the count before was below maxFreeToppings, pricePerTopping
\* otherwise.
C16_PriceKeptOnAdd ==
  [][\A id \in IngredientIds :
       (/\ toggleStep(id)
        /\ ~includes(selectedToppings, id)
        /\ isIngredientEnabled(id))
         => /\ getIngredientPrice(id)' = getIngredientPrice(id)
            /\ getIngredientPrice(id) =
                 IF Len(selectedToppings) < maxFreeToppings
                 THEN 0 ELSE pricePerTopping]_vars

\* C16 witness: an enabled id was added exactly at the allowance boundary
\* and is charged.
C16_Witness ==
  /\ pc = "effect"
  /\ lastOpIs("toggleTopping")
  /\ hist[1].enabled
  /\ hist[1].arg \notin Range(hist[1].toppings)
  /\ Len(hist[1].toppings) = maxFreeToppings
  /\ maxFreeToppings >= 1
  /\ pricePerTopping > 0
  /\ getIngredientPrice(hist[1].arg) = pricePerTopping

\* C17: in every step, a topping that is selected before and after the step
\* and was priced 0 is still priced 0; and one that was charged and is now
\* priced 0 had a topping selected earlier than it deselected in that step.
C17_FreeStaysFree ==
  [][\A id \in IngredientIds :
       (includes(selectedToppings, id) /\ includes(selectedToppings', id)) =>
         /\ getIngredientPrice(id) = 0 => getIngredientPrice(id)' = 0
         /\ (getIngredientPrice(id) # 0 /\ getIngredientPrice(id)' = 0) =>
              \E earlier \in Range(selectedToppings) :
                /\ ~includes(selectedToppings', earlier)
                /\ indexOf(selectedToppings, earlier)
                     < indexOf(selectedToppings, id)]_vars

\* C17 witness: a toggle deselected an earlier topping and a still selected,
\* previously charged topping moved into the free range.
C17_Witness ==
  /\ pc = "effect"
  /\ lastOpIs("toggleTopping")
  /\ pricePerTopping > 0
  /\ Len(hist[1].toppings) >= maxFreeToppings
  /\ \E id \in Range(selectedToppings) :
       /\ indexOf(hist[1].toppings, id) >= maxFreeToppings
       /\ indexOf(hist[1].toppings, hist[1].arg) < indexOf(hist[1].toppings, id)
       /\ hist[1].arg \in Range(hist[1].toppings)
       /\ getIngredientPrice(id) = 0

\* C18: after a user operation or the mount the effect clears the toppings
\* at most once, and a pending effect always leads to a settled state.
C18_AutoResetSettles ==
  /\ [](resets <= 1)
  /\ (pc = "effect") ~> (pc = "idle")

\* C18 witness: settled after exactly one reset, with a size whose
\* maxToppings is 0 selected and a toggle as the latest operation.
C18_Witness ==
  /\ pc = "idle"
  /\ resets = 1
  /\ sizeInCatalog(selectedPizzaSize)
  /\ pizzaSizes[selectedPizzaSize].maxToppings = 0
  /\ lastOpIs("toggleTopping")

====
